---- MODULE Spec2Model ----
(***************************************************************************)
(* Model of the RecrBeam calculator (src/calculator.py): the section       *)
(* object RectangularBeam, its constructor, its attribute assignments and  *)
(* calculate_mn with the helpers it calls.                                 *)
(*                                                                         *)
(* Numbers.  The program computes with Python floats.  The model computes  *)
(* with exact rationals <<n, d>> (d > 0, lowest terms), so that equalities *)
(* and orderings are those of the real-number formulas the code writes     *)
(* down; the rounding of IEEE doubles (at most an ulp per operation) is    *)
(* not modelled.  math.sqrt is modelled on the fixed-point grid 1/SqrtScale*)
(* (exact on the perfect squares).  Python's None is the empty tuple.      *)
(*                                                                         *)
(* Three specifications share the module.  Spec: one section, attribute    *)
(* assignments and calculate_mn.  CallSpec: one section and a log of the   *)
(* calls of its three methods.  DbSpec: the history store of                *)
(* src/db_manager.py.  AppSpec: the input fields, the unit toggle and the  *)
(* five displays of src/app.py.  The variables of the specifications that  *)
(* are not running keep their initial values.                              *)
(***************************************************************************)
EXTENDS Integers, Sequences, FiniteSets, TLC

VARIABLES args, beam, result, assigned, calls, db, saved, history,
          app_unit_system, input_vars, displays, edits

\* the variables of the section and of its callers
beamvars == <<args, beam, result, assigned, calls>>

\* the variables of the history store
dbvars == <<db, saved, history>>

\* the variables of the desktop application
appvars == <<app_unit_system, input_vars, displays, edits>>

\* the variables outside the section
outside == <<dbvars, appvars>>

\* the variables outside the section and its last result
others == <<calls, outside>>

vars == <<args, beam, result, assigned, calls, db, saved, history,
          app_unit_system, input_vars, displays, edits>>

(***************************************************************************)
(* Rational arithmetic                                                     *)
(***************************************************************************)
Abs(x) == IF x < 0 THEN -x ELSE x

RECURSIVE GCD(_, _)
GCD(x, y) == IF y = 0 THEN x ELSE GCD(y, x % y)

\* the rational n/d in lowest terms with a positive denominator (d # 0)
R(n, d) ==
    LET g == GCD(Abs(n), Abs(d))
        s == IF d < 0 THEN -1 ELSE 1
    IN  <<s * (n \div g), s * (d \div g)>>

ToR(n) == <<n, 1>>
Zero == <<0, 1>>

RNeg(p) == <<-p[1], p[2]>>

RMul(p, q) ==
    LET g1 == GCD(Abs(p[1]), q[2])
        g2 == GCD(Abs(q[1]), p[2])
    IN  <<(p[1] \div g1) * (q[1] \div g2), (p[2] \div g2) * (q[2] \div g1)>>

\* q # Zero
RDiv(p, q) ==
    RMul(p, IF q[1] < 0 THEN <<-q[2], -q[1]>> ELSE <<q[2], q[1]>>)

RAdd(p, q) ==
    LET g == GCD(p[2], q[2])
        l == (p[2] \div g) * q[2]
    IN  R(p[1] * (l \div p[2]) + q[1] * (l \div q[2]), l)

RSub(p, q) == RAdd(p, RNeg(q))

RLe(p, q) ==
    LET g == GCD(p[2], q[2])
    IN  p[1] * (q[2] \div g) <= q[1] * (p[2] \div g)

RLt(p, q) == RLe(p, q) /\ p # q
RGe(p, q) == RLe(q, p)
RGt(p, q) == RLt(q, p)

\* Python's max(x, y): y only when it is strictly greater
RMax(p, q) == IF RGt(q, p) THEN q ELSE p

RECURSIVE ISqrtFrom(_, _, _)
\* the largest r in lo..hi with r*r <= n  (lo*lo <= n)
ISqrtFrom(n, lo, hi) ==
    IF lo >= hi THEN lo
    ELSE LET mid == (lo + hi + 1) \div 2
         IN  IF mid * mid <= n THEN ISqrtFrom(n, mid, hi)
                               ELSE ISqrtFrom(n, lo, mid - 1)

SqrtScale == 100

\* math.sqrt(x) for x >= 0, on the grid 1/SqrtScale
Sqrt(p) ==
    LET n == (p[1] * SqrtScale * SqrtScale) \div p[2]
    IN  R(ISqrtFrom(n, 0, 46340), SqrtScale)

None == <<>>

(***************************************************************************)
(* RectangularBeam                                                         *)
(***************************************************************************)
\* the unit string stored as given
LowerSkipped(u) == u

\* str.lower() on the unit strings the callers pass
Lower(u) ==
    CASE u = "Imperial" -> "imperial"
      [] u = "IMPERIAL" -> "imperial"
      [] u = "SI" -> "si"
      [] OTHER -> u

\* the interpolation expressions of _calculate_beta1
Beta1Interp(unit_system, fc) ==
    IF unit_system = "imperial"
    THEN RSub(R(85, 100), RDiv(RMul(R(5, 100), RSub(fc, ToR(4000))), ToR(1000)))
    ELSE RSub(R(85, 100), RDiv(RMul(R(5, 100), RSub(fc, ToR(28))), ToR(7)))

\* a slip in the slope of the interpolation
calculate_beta1_slope(self) ==
    IF self.unit_system = "imperial"
    THEN IF RLe(self.fc, ToR(4000)) THEN R(85, 100)
         ELSE IF RGe(self.fc, ToR(8000)) THEN R(65, 100)
         ELSE RSub(R(85, 100), RDiv(RMul(R(5, 100), RSub(self.fc, ToR(4000))), ToR(10000)))
    ELSE IF RLe(self.fc, ToR(28)) THEN R(85, 100)
         ELSE IF RGe(self.fc, ToR(55)) THEN R(65, 100)
         ELSE RSub(R(85, 100), RDiv(RMul(R(5, 100), RSub(self.fc, ToR(28))), ToR(70)))

\* _calculate_beta1: reads self.unit_system and self.fc
calculate_beta1(self) ==
    IF self.unit_system = "imperial"
    THEN IF RLe(self.fc, ToR(4000)) THEN R(85, 100)
         ELSE IF RGe(self.fc, ToR(8000)) THEN R(65, 100)
         ELSE Beta1Interp(self.unit_system, self.fc)
    ELSE IF RLe(self.fc, ToR(28)) THEN R(85, 100)
         ELSE IF RGe(self.fc, ToR(55)) THEN R(65, 100)
         ELSE Beta1Interp(self.unit_system, self.fc)

\* the derivation run whatever the caller supplied
InitBeta1Derived(beta1, self) == calculate_beta1(self)

\* "Set beta1 - calculate if not provided"
InitBeta1(beta1, self) ==
    IF beta1 = None THEN calculate_beta1(self) ELSE beta1

\* "Set Es default based on unit system"
InitEs(Es, unit_system) ==
    IF Es = None
    THEN (IF unit_system = "imperial" THEN ToR(29000000) ELSE ToR(200000))
    ELSE Es

\* the steel area taken as the area of one bar
RectangularBeamOneBar(a) ==
    LET self0 == [b |-> a.b, h |-> a.h, d |-> a.d, fc |-> a.fc, fy |-> a.fy,
                  n_bars |-> a.n_bars, bar_area |-> a.bar_area,
                  As |-> a.bar_area,
                  epsilon_cu |-> a.epsilon_cu,
                  unit_system |-> Lower(a.unit_system)]
        Es == InitEs(a.Es, self0.unit_system)
    IN  [b |-> self0.b, h |-> self0.h, d |-> self0.d, fc |-> self0.fc,
         fy |-> self0.fy, n_bars |-> self0.n_bars, bar_area |-> self0.bar_area,
         As |-> self0.As, epsilon_cu |-> self0.epsilon_cu,
         unit_system |-> self0.unit_system, Es |-> Es,
         beta1 |-> InitBeta1(a.beta1, self0)]

\* __init__: the section object the constructor leaves behind.  There is no
\* validation: every argument is stored as given.
RectangularBeam(a) ==
    LET self0 == [b |-> a.b, h |-> a.h, d |-> a.d, fc |-> a.fc, fy |-> a.fy,
                  n_bars |-> a.n_bars, bar_area |-> a.bar_area,
                  As |-> RMul(ToR(a.n_bars), a.bar_area),
                  epsilon_cu |-> a.epsilon_cu,
                  unit_system |-> Lower(a.unit_system)]
        Es == InitEs(a.Es, self0.unit_system)
    IN  [b |-> self0.b, h |-> self0.h, d |-> self0.d, fc |-> self0.fc,
         fy |-> self0.fy, n_bars |-> self0.n_bars, bar_area |-> self0.bar_area,
         As |-> self0.As, epsilon_cu |-> self0.epsilon_cu,
         unit_system |-> self0.unit_system, Es |-> Es,
         beta1 |-> InitBeta1(a.beta1, self0)]

\* an exception leaving a method: no value is returned
Raised(e) == [kind |-> e]

\* calculate_as_min: [kind |-> "ok", value |-> As_min] or the exception
calculate_as_min(self) ==
    IF RLt(self.fc, Zero) THEN Raised("ValueError")
    ELSE IF self.fy = Zero THEN Raised("ZeroDivisionError")
    ELSE
    LET bd(t) == RMul(RMul(t, self.b), self.d)
        term1 == IF self.unit_system = "imperial"
                 THEN bd(RDiv(RMul(ToR(3), Sqrt(self.fc)), self.fy))
                 ELSE bd(RDiv(RMul(R(25, 100), Sqrt(self.fc)), self.fy))
        term2 == IF self.unit_system = "imperial"
                 THEN bd(RDiv(ToR(200), self.fy))
                 ELSE bd(RDiv(R(14, 10), self.fy))
    IN  [kind |-> "ok", value |-> RMax(term1, term2)]

\* T = self.As * self.fy
TensionForce(self) == RMul(self.As, self.fy)

\* the divisor 0.85 * fc * b of the stress block depth
StressBlockDivisor(self) == RMul(RMul(R(85, 100), self.fc), self.b)

\* the stress block taken over the reduced width beta1 * b
StressBlockDepthReduced(self) ==
    RDiv(RMul(self.As, self.fy), RMul(StressBlockDivisor(self), self.beta1))

\* a = (As * fy) / (0.85 * fc * b), the divisor not zero
StressBlockDepth(self) == RDiv(RMul(self.As, self.fy), StressBlockDivisor(self))

\* epsilon_s = epsilon_cu * (d - c) / c, c not zero
SteelStrain(self, c) == RDiv(RMul(self.epsilon_cu, RSub(self.d, c)), c)

\* yield_check = epsilon_s >= epsilon_y
YieldCheck(epsilon_s, epsilon_y) == RGe(epsilon_s, epsilon_y)

\* fs = fy if yield_check else epsilon_s * Es
SteelStress(self, yield_check, epsilon_s) ==
    IF yield_check THEN self.fy ELSE RMul(epsilon_s, self.Es)

\* the moment of the yield force whatever the steel stress
NominalMomentYield(self, fs, a) ==
    RMul(RMul(self.As, self.fy), RSub(self.d, RDiv(a, ToR(2))))

\* Mn = As * fs * (d - a / 2)
NominalMoment(self, fs, a) ==
    RMul(RMul(self.As, fs), RSub(self.d, RDiv(a, ToR(2))))

\* the transition expression of the phi factor
PhiTransition(epsilon_t) ==
    RAdd(R(65, 100),
         RDiv(RMul(R(25, 100), RSub(epsilon_t, R(2, 1000))), R(3, 1000)))

\* the transition zone taken to end at 0.004
PhiEarly(epsilon_t) ==
    IF RGe(epsilon_t, R(4, 1000)) THEN R(9, 10)
    ELSE IF RLe(epsilon_t, R(2, 1000)) THEN R(65, 100)
    ELSE PhiTransition(epsilon_t)

\* "Phi factor (ACI 318)"
Phi(epsilon_t) ==
    IF RGe(epsilon_t, R(5, 1000)) THEN R(9, 10)
    ELSE IF RLe(epsilon_t, R(2, 1000)) THEN R(65, 100)
    ELSE PhiTransition(epsilon_t)

\* Mu = phi * Mn
DesignMoment(phi, Mn) == RMul(phi, Mn)

\* calculate_mn: the dict it returns (kind "ok"), or the exception it raises
calculate_mn(self) ==
    LET T == TensionForce(self) IN
    IF StressBlockDivisor(self) = Zero THEN Raised("ZeroDivisionError") ELSE
    LET a == StressBlockDepth(self) IN
    IF self.beta1 = Zero THEN Raised("ZeroDivisionError") ELSE
    LET c == RDiv(a, self.beta1) IN
    IF self.Es = Zero THEN Raised("ZeroDivisionError") ELSE
    LET epsilon_y == RDiv(self.fy, self.Es) IN
    IF c = Zero THEN Raised("ZeroDivisionError") ELSE
    LET epsilon_s == SteelStrain(self, c)
        yield_check == YieldCheck(epsilon_s, epsilon_y)
        fs == SteelStress(self, yield_check, epsilon_s)
        Mn == NominalMoment(self, fs, a)
        imperial == self.unit_system = "imperial"
        Mn_display == IF imperial THEN RDiv(Mn, ToR(12000)) ELSE RDiv(Mn, ToR(1000000))
        T_display == RDiv(T, ToR(1000))
        Mn_k == IF imperial THEN RDiv(Mn, ToR(1000)) ELSE Mn
        as_min == calculate_as_min(self)
    IN
    IF as_min.kind # "ok" THEN as_min ELSE
    LET As_min == as_min.value
        as_check == RGe(self.As, As_min)
        epsilon_t == epsilon_s
        phi == Phi(epsilon_t)
        Mu == DesignMoment(phi, Mn)
        Mu_display == IF imperial THEN RDiv(Mu, ToR(12000)) ELSE RDiv(Mu, ToR(1000000))
    IN  [kind |-> "ok",
         T |-> T, T_display |-> T_display, a |-> a, c |-> c,
         epsilon_y |-> epsilon_y, epsilon_s |-> epsilon_s,
         yield_check |-> yield_check, fs |-> fs,
         Mn |-> Mn, Mn_k |-> Mn_k, Mn_display |-> Mn_display,
         As |-> self.As, As_min |-> As_min, as_check |-> as_check,
         epsilon_t |-> epsilon_t, phi |-> phi,
         Mu |-> Mu, Mu_display |-> Mu_display,
         Mn_kft |-> IF imperial THEN Mn_display ELSE None,
         Mn_kin |-> IF imperial THEN RDiv(Mn_k, ToR(1000)) ELSE None,
         Mu_kft |-> IF imperial THEN Mu_display ELSE None]

(***************************************************************************)
(* Inputs.  The constructor takes any numbers.  The model draws them from  *)
(* the two sections of src/test_calculator.py (Examples) and from one      *)
(* section per unit system (Base) varied in bar count, bar area and fc     *)
(* (Bases), each of those also with one further argument changed to        *)
(* another valid value (Alts) or to a value outside the documented range   *)
(* (Offs).  The sections are chosen so that every intermediate value of    *)
(* calculate_mn stays within the 32-bit integers of the model checker.     *)
(***************************************************************************)
MaxBars == 6
MaxAssign == 1

Units == {"imperial", "si"}

Example(u) ==
    IF u = "imperial"
    THEN [b |-> ToR(12), h |-> ToR(20), d |-> R(35, 2), fc |-> ToR(4000),
          fy |-> ToR(60000), n_bars |-> 4, bar_area |-> R(79, 100),
          Es |-> None, beta1 |-> None, epsilon_cu |-> R(3, 1000),
          unit_system |-> u]
    ELSE [b |-> ToR(250), h |-> ToR(565), d |-> ToR(500), fc |-> ToR(20),
          fy |-> ToR(420), n_bars |-> 3, bar_area |-> ToR(510),
          Es |-> None, beta1 |-> None, epsilon_cu |-> R(3, 1000),
          unit_system |-> u]

Base(u) ==
    IF u = "imperial"
    THEN [b |-> ToR(12), h |-> ToR(24), d |-> ToR(20), fc |-> ToR(4000),
          fy |-> ToR(60000), n_bars |-> 4, bar_area |-> R(60, 100),
          Es |-> None, beta1 |-> None, epsilon_cu |-> R(3, 1000),
          unit_system |-> u]
    ELSE [b |-> ToR(100), h |-> ToR(150), d |-> ToR(120), fc |-> ToR(20),
          fy |-> ToR(400), n_bars |-> 3, bar_area |-> ToR(34),
          Es |-> None, beta1 |-> None, epsilon_cu |-> R(3, 1000),
          unit_system |-> u]

FcValues(u) ==
    IF u = "imperial"
    THEN {ToR(3600), ToR(4000), ToR(6000), ToR(8000), ToR(10000)}
    ELSE {ToR(20), ToR(28), ToR(35), ToR(55), ToR(64)}
BarAreaValues(u) ==
    IF u = "imperial" THEN {R(60, 100), R(120, 100)} ELSE {ToR(34), ToR(68)}

Bases(u) ==
    { [Base(u) EXCEPT !.n_bars = n, !.bar_area = ba, !.fc = fc] :
        n \in 1..MaxBars, ba \in BarAreaValues(u), fc \in FcValues(u) }

Alts(x) ==
    LET imperial == x.unit_system = "imperial" IN
    {[x EXCEPT !.d = IF imperial THEN ToR(15) ELSE ToR(100)],
     [x EXCEPT !.Es = IF imperial THEN ToR(30000000) ELSE ToR(210000)],
     [x EXCEPT !.beta1 = R(70, 100)],
     [x EXCEPT !.epsilon_cu = R(35, 10000)]}

Offs(x) ==
    {[x EXCEPT !.b = v] : v \in {Zero, RNeg(x.b)}}
    \cup {[x EXCEPT !.h = v] : v \in {Zero, RNeg(x.h), RDiv(x.d, ToR(2))}}
    \cup {[x EXCEPT !.d = v] : v \in {Zero, RNeg(x.d), RAdd(x.h, ToR(5))}}
    \cup {[x EXCEPT !.fc = v] : v \in {Zero, RNeg(x.fc)}}
    \cup {[x EXCEPT !.fy = v] : v \in {Zero, RNeg(x.fy)}}
    \cup {[x EXCEPT !.n_bars = v] : v \in {0, -x.n_bars}}
    \cup {[x EXCEPT !.bar_area = v] : v \in {Zero, RNeg(x.bar_area)}}
    \cup {[x EXCEPT !.Es = v] : v \in {Zero, ToR(-200000)}}
    \cup {[x EXCEPT !.beta1 = v] : v \in {Zero, R(-85, 100), ToR(1)}}
    \cup {[x EXCEPT !.epsilon_cu = v] : v \in {Zero, R(-3, 1000)}}
    \cup {[x EXCEPT !.unit_system = v] : v \in
              IF x.unit_system = "imperial" THEN {"Imperial", "IMPERIAL"}
                                            ELSE {"SI", "metric"}}

\* SI sections whose steel strain is exactly 0.002 (the yield strain for the
\* default Es) and exactly 0.005
Balanced ==
    {[Base("si") EXCEPT !.n_bars = 1, !.bar_area = v] :
        v \in {R(2601, 10), R(2601, 16)}}

\* SI sections with so much steel that the neutral axis lies below the steel
\* (c > d), one with a negative Es and one with a negative epsilon_cu
Crushed ==
    {[Base("si") EXCEPT !.n_bars = 6, !.bar_area = ToR(68), !.d = ToR(30),
                        !.Es = ToR(-200000)],
     [Base("si") EXCEPT !.n_bars = 6, !.bar_area = ToR(68), !.d = ToR(100),
                        !.epsilon_cu = R(-3, 1000)]}

Inputs ==
    {Example(u) : u \in Units} \cup Balanced \cup Crushed
    \cup UNION { {x} \cup Alts(x) \cup (IF x.fc = Base(x.unit_system).fc
                                         THEN Offs(x) ELSE {})
                 : x \in UNION {Bases(u) : u \in Units} }

\* values a caller assigns to the attributes of an existing section
NBarsAssigned == {0, 2}
BarAreaAssigned(u) == IF u = "imperial" THEN {R(44, 100)} ELSE {ToR(51)}
AsAssigned(u) == IF u = "imperial" THEN {Zero, ToR(3)} ELSE {Zero, ToR(170)}

(***************************************************************************)
(* State machine.  args: the arguments of the constructor call; beam: the  *)
(* section object; result: what calculate_mn returned or raised for the    *)
(* section as it is now (NoResult before the call and after the section    *)
(* changed); assigned: the number of attribute assignments so far.         *)
(***************************************************************************)
NoResult == [kind |-> "none"]

\* no database file yet, nothing saved, nothing read
DbIdle ==
    /\ db = [table |-> FALSE, rows |-> <<>>, seq |-> 0]
    /\ saved = <<>>
    /\ history = NoResult

\* no application window
AppIdle ==
    /\ app_unit_system = "Imperial"
    /\ input_vars = <<>>
    /\ displays = NoResult
    /\ edits = 0

Init ==
    /\ args \in Inputs
    /\ beam = RectangularBeam(args)
    /\ result = NoResult
    /\ assigned = 0
    /\ calls = <<>>
    /\ DbIdle
    /\ AppIdle

CalculateMn ==
    /\ result = NoResult
    /\ result' = calculate_mn(beam)
    /\ UNCHANGED <<args, beam, assigned>>
    /\ UNCHANGED others

\* beam.n_bars = v
SetNBars ==
    /\ assigned < MaxAssign
    /\ \E v \in NBarsAssigned : beam' = [beam EXCEPT !.n_bars = v]
    /\ beam' # beam
    /\ result' = NoResult
    /\ assigned' = assigned + 1
    /\ UNCHANGED args
    /\ UNCHANGED others

\* beam.bar_area = v
SetBarArea ==
    /\ assigned < MaxAssign
    /\ \E v \in BarAreaAssigned(beam.unit_system) : beam' = [beam EXCEPT !.bar_area = v]
    /\ result' = NoResult
    /\ assigned' = assigned + 1
    /\ UNCHANGED args
    /\ UNCHANGED others

\* beam.As = v
SetAs ==
    /\ assigned < MaxAssign
    /\ \E v \in AsAssigned(beam.unit_system) : beam' = [beam EXCEPT !.As = v]
    /\ result' = NoResult
    /\ assigned' = assigned + 1
    /\ UNCHANGED args
    /\ UNCHANGED others

Next == CalculateMn \/ SetNBars \/ SetBarArea \/ SetAs

Spec == Init /\ [][Next]_vars

(***************************************************************************)
(* Calls.  calls: the log of the method calls made on the section, each    *)
(* with the value it returned (or the exception it raised).                *)
(***************************************************************************)
MaxCalls == 2

\* a slip in one label of the SI branch
get_units_mixed(self) ==
    IF self.unit_system = "imperial"
    THEN [length |-> "in", area |-> "in^2", force |-> "lb", force_k |-> "kips",
          stress |-> "psi", moment |-> "lb-in", moment_k |-> "k-in",
          moment_display |-> "k-ft"]
    ELSE [length |-> "mm", area |-> "mm^2", force |-> "N", force_k |-> "kN",
          stress |-> "MPa", moment |-> "N-mm", moment_k |-> "k-in",
          moment_display |-> "kN-m"]

\* get_units: the dict of unit labels
get_units(self) ==
    IF self.unit_system = "imperial"
    THEN [length |-> "in", area |-> "in^2", force |-> "lb", force_k |-> "kips",
          stress |-> "psi", moment |-> "lb-in", moment_k |-> "k-in",
          moment_display |-> "k-ft"]
    ELSE [length |-> "mm", area |-> "mm^2", force |-> "N", force_k |-> "kN",
          stress |-> "MPa", moment |-> "N-mm", moment_k |-> "N-mm",
          moment_display |-> "kN-m"]

\* the strain reset to its default by the call
SelfStrainReset(self) == [self EXCEPT !.epsilon_cu = R(3, 1000)]

\* the section after a call of calculate_mn, calculate_as_min or get_units:
\* none of them assigns an attribute of self
SelfAfterCall(self) == self

CallInit ==
    /\ args \in Inputs
    /\ beam = RectangularBeam(args)
    /\ result = NoResult
    /\ assigned = 0
    /\ calls = <<>>
    /\ DbIdle
    /\ AppIdle

\* beam.calculate_mn()
CallCalculateMn ==
    /\ Len(calls) < MaxCalls
    /\ result' = calculate_mn(beam)
    /\ calls' = Append(calls, [method |-> "calculate_mn", value |-> result'])
    /\ beam' = SelfAfterCall(beam)
    /\ UNCHANGED <<args, assigned>>
    /\ UNCHANGED outside

\* beam.calculate_as_min()
CallCalculateAsMin ==
    /\ Len(calls) < MaxCalls
    /\ calls' = Append(calls, [method |-> "calculate_as_min",
                               value |-> calculate_as_min(beam)])
    /\ beam' = SelfAfterCall(beam)
    /\ UNCHANGED <<args, result, assigned>>
    /\ UNCHANGED outside

\* beam.get_units()
CallGetUnits ==
    /\ Len(calls) < MaxCalls
    /\ calls' = Append(calls, [method |-> "get_units", value |-> get_units(beam)])
    /\ beam' = SelfAfterCall(beam)
    /\ UNCHANGED <<args, result, assigned>>
    /\ UNCHANGED outside

CallNext == CallCalculateMn \/ CallCalculateAsMin \/ CallGetUnits

CallSpec == CallInit /\ [][CallNext]_vars

(***************************************************************************)
(* The history store (src/db_manager.py).  db: the database file: whether  *)
(* the table calculations exists, its rows in insertion order, and the     *)
(* AUTOINCREMENT counter.  saved: the maps the callers handed to the       *)
(* save_calculation calls that completed, in order.  history: what the     *)
(* last get_history call was asked and what it returned.                   *)
(*                                                                         *)
(* A Python value in a saved map is tagged with its type; a JSON text is   *)
(* the token json.dumps writes for it.                                     *)
(***************************************************************************)
MaxRows == 3
MaxClock == 2

PyFloat(x) == [t |-> "float", v |-> x]
PyInt(n) == [t |-> "int", v |-> n]
PyBool(f) == [t |-> "bool", v |-> f]
PyStr(x) == [t |-> "str", v |-> x]
PyNone == [t |-> "NoneType"]

\* null read back as the number zero
json_loads_value_zero(text) ==
    CASE text.json = "null" -> PyInt(0)
      [] text.json = "true" -> PyBool(TRUE)
      [] text.json = "false" -> PyBool(FALSE)
      [] text.json = "string" -> PyStr(text.chars)
      [] text.json = "number" ->
           IF text.fraction THEN PyFloat(text.digits) ELSE PyInt(text.digits)

\* json.dumps of one value: null, true, false, a quoted string, or a number
\* written with a fraction part (float) or without (int)
json_dumps_value(x) ==
    CASE x.t = "NoneType" -> [json |-> "null"]
      [] x.t = "bool" -> [json |-> IF x.v THEN "true" ELSE "false"]
      [] x.t = "str" -> [json |-> "string", chars |-> x.v]
      [] x.t = "int" -> [json |-> "number", fraction |-> FALSE, digits |-> x.v]
      [] x.t = "float" -> [json |-> "number", fraction |-> TRUE, digits |-> x.v]

\* json.loads of one value
json_loads_value(text) ==
    CASE text.json = "null" -> PyNone
      [] text.json = "true" -> PyBool(TRUE)
      [] text.json = "false" -> PyBool(FALSE)
      [] text.json = "string" -> PyStr(text.chars)
      [] text.json = "number" ->
           IF text.fraction THEN PyFloat(text.digits) ELSE PyInt(text.digits)

\* json.dumps and json.loads of a dict with string keys
json_dumps(map) == [k \in DOMAIN map |-> json_dumps_value(map[k])]
json_loads(text) == [k \in DOMAIN text |-> json_loads_value(text[k])]

\* the inputs dict a caller saves for constructor arguments a
InputsMap(a) ==
    [b |-> PyFloat(a.b), h |-> PyFloat(a.h), d |-> PyFloat(a.d),
     fc |-> PyFloat(a.fc), fy |-> PyFloat(a.fy), n_bars |-> PyInt(a.n_bars),
     bar_area |-> PyFloat(a.bar_area), unit_system |-> PyStr(a.unit_system)]

\* the dict calculate_mn returned, as Python values
ResultsMap(r) ==
    [k \in DOMAIN r \ {"kind"} |->
        IF k \in {"yield_check", "as_check"} THEN PyBool(r[k])
        ELSE IF r[k] = None THEN PyNone ELSE PyFloat(r[k])]

\* the calculations the callers save: the two examples of the tests
Calculations ==
    { [inputs |-> InputsMap(Example(u)),
       results |-> ResultsMap(calculate_mn(RectangularBeam(Example(u))))] :
      u \in Units }

\* the limits the callers pass to get_history (10 is the default)
Limits == 0..(MaxRows + 1) \cup {10}

\* the first n elements of a sequence, reversed
RECURSIVE NewestFirst(_, _)
NewestFirst(rows, n) ==
    IF n = 0 \/ rows = <<>> THEN <<>>
    ELSE <<rows[Len(rows)]>> \o NewestFirst(SubSeq(rows, 1, Len(rows) - 1), n - 1)

\* the rows in insertion order
SelectOldestFirst(rows, limit) ==
    SubSeq(rows, 1, IF limit < Len(rows) THEN limit ELSE Len(rows))

\* SELECT ... FROM calculations ORDER BY id DESC LIMIT ?   (limit >= 0; ids
\* grow with the insertions)
SelectHistory(rows, limit) == NewestFirst(rows, limit)

\* the section and its callers are not running
BeamIdle ==
    /\ args = Example("imperial")
    /\ beam = RectangularBeam(args)
    /\ result = NoResult
    /\ assigned = 0
    /\ calls = <<>>

DbInit ==
    /\ BeamIdle
    /\ DbIdle
    /\ AppIdle

\* init_db(): CREATE TABLE IF NOT EXISTS
InitDb ==
    /\ db' = [db EXCEPT !.table = TRUE]
    /\ UNCHANGED <<saved, history>>
    /\ UNCHANGED beamvars
    /\ UNCHANGED appvars

\* save_calculation(inputs, results) with the table present: one INSERT
SaveCalculation ==
    /\ db.table
    /\ Len(db.rows) < MaxRows
    /\ \E calc \in Calculations, timestamp \in 1..MaxClock :
          /\ db' = [db EXCEPT
                      !.rows = Append(@, [id |-> db.seq + 1,
                                          timestamp |-> timestamp,
                                          inputs |-> json_dumps(calc.inputs),
                                          results |-> json_dumps(calc.results)]),
                      !.seq = @ + 1]
          /\ saved' = Append(saved, calc)
    /\ UNCHANGED history
    /\ UNCHANGED beamvars
    /\ UNCHANGED appvars

\* get_history(limit) with the table present
GetHistory ==
    /\ db.table
    /\ \E limit \in Limits :
          LET selected == SelectHistory(db.rows, limit)
          IN  history' =
                [kind |-> "ok", limit |-> limit, count |-> Len(db.rows),
                 value |-> [i \in DOMAIN selected |->
                              [id |-> selected[i].id,
                               timestamp |-> selected[i].timestamp,
                               inputs |-> json_loads(selected[i].inputs),
                               results |-> json_loads(selected[i].results)]]]
    /\ UNCHANGED <<db, saved>>
    /\ UNCHANGED beamvars
    /\ UNCHANGED appvars

\* save_calculation or get_history before init_db: sqlite3.OperationalError
\* (no such table), nothing is stored and nothing is returned
NoSuchTable ==
    /\ ~db.table
    /\ history' = Raised("OperationalError")
    /\ UNCHANGED <<db, saved>>
    /\ UNCHANGED beamvars
    /\ UNCHANGED appvars

DbNext == InitDb \/ SaveCalculation \/ GetHistory \/ NoSuchTable

DbSpec == DbInit /\ [][DbNext]_vars

(***************************************************************************)
(* The desktop application (src/app.py).  app_unit_system: the unit toggle *)
(* ("Imperial" or "SI").  input_vars: the text of the ten entry fields.    *)
(* displays: what the three diagrams and the two text panels hold, each    *)
(* the values it was last drawn from.  edits: the number of edits and      *)
(* toggles so far.  Event handlers run one at a time on the Tk main loop.  *)
(*                                                                         *)
(* The text of a field is a numeric literal, the literal "nan", or text    *)
(* that float() rejects (an empty or half-typed field).                    *)
(***************************************************************************)
MaxEdits == 2

Num(x) == [text |-> "number", value |-> x]
NanText == [text |-> "nan"]
Junk == [text |-> "junk"]

\* float("nan"): not a number, every comparison with it is false
NaN == <<0, 0>>

Keys == {"fc", "fy", "Es", "beta1", "epsilon_cu", "b", "h", "d", "n_bars",
         "bar_area"}

\* _set_defaults: the field texts for a unit system
Defaults(unit) ==
    IF unit = "Imperial"
    THEN [fc |-> Num(ToR(4000)), fy |-> Num(ToR(60000)),
          Es |-> Num(ToR(29000000)), beta1 |-> Num(R(85, 100)),
          epsilon_cu |-> Num(R(3, 1000)), b |-> Num(ToR(12)),
          h |-> Num(ToR(20)), d |-> Num(R(35, 2)), n_bars |-> Num(ToR(4)),
          bar_area |-> Num(R(79, 100))]
    ELSE [fc |-> Num(ToR(20)), fy |-> Num(ToR(420)),
          Es |-> Num(ToR(200000)), beta1 |-> Num(R(85, 100)),
          epsilon_cu |-> Num(R(3, 1000)), b |-> Num(ToR(250)),
          h |-> Num(ToR(565)), d |-> Num(ToR(500)), n_bars |-> Num(ToR(3)),
          bar_area |-> Num(ToR(510))]

\* the texts a user leaves in a field while editing it (an unparseable text
\* stands for the imperial default in either unit system; it is offered
\* where the resulting section stays within 32-bit exact arithmetic)
Texts(key, unit) ==
    LET imperial == unit = "Imperial" IN
    {Num(Zero)} \cup
    (IF imperial \/ key \notin {"fc", "fy", "b", "d", "bar_area"} THEN {Junk} ELSE {}) \cup
    CASE key = "fc" -> {Num(IF imperial THEN ToR(5000) ELSE ToR(40))}
      [] key = "fy" -> {Num(IF imperial THEN ToR(40000) ELSE ToR(400))}
      [] key = "Es" -> {Num(IF imperial THEN ToR(30000000) ELSE ToR(210000))}
      [] key = "beta1" -> {Num(R(80, 100))}
      [] key = "epsilon_cu" -> {Num(R(35, 10000))}
      [] key = "b" -> {Num(IF imperial THEN ToR(10) ELSE ToR(300))}
      [] key = "h" -> {Num(IF imperial THEN ToR(24) ELSE ToR(600)), NanText}
      [] key = "d" -> {Num(IF imperial THEN ToR(15) ELSE ToR(450)), Num(ToR(-1))}
      [] key = "n_bars" -> {Num(R(5, 2)), Num(R(1, 2))}
      [] key = "bar_area" -> {Num(IF imperial THEN ToR(1) ELSE ToR(340))}

\* _get_input_value: float(text), or the default when float raises ValueError
get_input_value(iv, key, default) ==
    CASE iv[key].text = "number" -> iv[key].value
      [] iv[key].text = "nan" -> NaN
      [] OTHER -> default

\* int(x) of a finite float: truncation toward zero
IntOf(x) == IF x[1] >= 0 THEN x[1] \div x[2] ELSE -((-x[1]) \div x[2])

NotPositiveStrict(v) == v # NaN /\ RLt(v, Zero)

\* v <= 0 on a float: false for nan
NotPositive(v) == v # NaN /\ RLe(v, Zero)

\* the displays before the first update
Blank ==
    [section |-> NoResult, strain |-> NoResult, stress |-> NoResult,
     results_text |-> NoResult, equations_text |-> NoResult]

\* _draw_cross_section: the figure is rebuilt from the arguments and
\* canvas.draw() puts it on the screen.  ax.set_ylim(-h * 0.1, h * 1.05)
\* comes before canvas.draw() and raises ValueError for a limit that is NaN:
\* the screen then keeps the picture it had
draw_cross_section(b, h, d, a, c, n_bars, bar_area) ==
    [kind |-> IF h = NaN THEN "ValueError" ELSE "ok",
     shows |-> [b |-> b, h |-> h, d |-> d, a |-> a, c |-> c,
                n_bars |-> n_bars, bar_area |-> bar_area]]

\* _update_calculations, the values read from the fields: float() of each
\* text or its default, n_bars truncated by int()
input_values(iv) ==
    [fc |-> get_input_value(iv, "fc", ToR(4000)),
     fy |-> get_input_value(iv, "fy", ToR(60000)),
     Es |-> get_input_value(iv, "Es", ToR(29000000)),
     beta1 |-> get_input_value(iv, "beta1", R(85, 100)),
     epsilon_cu |-> get_input_value(iv, "epsilon_cu", R(3, 1000)),
     b |-> get_input_value(iv, "b", ToR(12)),
     h |-> get_input_value(iv, "h", ToR(20)),
     d |-> get_input_value(iv, "d", R(35, 2)),
     n_bars |-> IntOf(get_input_value(iv, "n_bars", ToR(4))),
     bar_area |-> get_input_value(iv, "bar_area", R(79, 100))]

\* _update_calculations: any(v <= 0 for v in [fc, fy, Es, b, h, d, n_bars, bar_area])
AnyNotPositive(v) ==
    \/ \E k \in {"fc", "fy", "Es", "b", "h", "d", "bar_area"} : NotPositive(v[k])
    \/ v.n_bars <= 0

\* _update_calculations: the section built from the values and the toggle
BeamOf(unit, v) ==
    RectangularBeam(
        [b |-> v.b, h |-> v.h, d |-> v.d, fc |-> v.fc, fy |-> v.fy,
         n_bars |-> v.n_bars, bar_area |-> v.bar_area, Es |-> v.Es,
         beta1 |-> v.beta1, epsilon_cu |-> v.epsilon_cu,
         unit_system |-> Lower(unit)])

\* _update_calculations, the five updates in their order: an exception of
\* calculate_mn or of the first drawing ends the handler (except: pass)
UpdateDisplays(disp, v, results, units) ==
    IF results.kind # "ok" THEN disp
    ELSE IF draw_cross_section(v.b, v.h, v.d, results.a, results.c, v.n_bars,
                               v.bar_area).kind # "ok" THEN disp
    ELSE
    [section |-> [kind |-> "ok",
                  shows |-> draw_cross_section(v.b, v.h, v.d, results.a,
                                results.c, v.n_bars, v.bar_area).shows],
     strain |-> [kind |-> "ok",
                 shows |-> [h |-> v.h, d |-> v.d, c |-> results.c,
                            epsilon_cu |-> v.epsilon_cu,
                            epsilon_s |-> results.epsilon_s]],
     stress |-> [kind |-> "ok",
                 shows |-> [h |-> v.h, d |-> v.d, a |-> results.a,
                            c |-> results.c,
                            T_display |-> results.T_display,
                            force_k |-> units.force_k]],
     results_text |-> [kind |-> "ok", results |-> results, units |-> units],
     equations_text |-> [kind |-> "ok", results |-> results, units |-> units,
                         n_bars |-> v.n_bars, bar_area |-> v.bar_area,
                         fc |-> v.fc, fy |-> v.fy, Es |-> v.Es,
                         beta1 |-> v.beta1, epsilon_cu |-> v.epsilon_cu,
                         b |-> v.b, d |-> v.d]]

\* _update_calculations after the values are read
UpdateFrom(unit, v, disp) ==
    IF AnyNotPositive(v) THEN disp
    ELSE UpdateDisplays(disp, v, calculate_mn(BeamOf(unit, v)),
                        get_units(BeamOf(unit, v)))

\* _update_calculations: the displays it leaves behind
update_calculations(unit, iv, disp) == UpdateFrom(unit, input_values(iv), disp)

\* __init__: the defaults are set and the first update has run
AppInit ==
    /\ BeamIdle
    /\ DbIdle
    /\ app_unit_system = "Imperial"
    /\ input_vars = Defaults("Imperial")
    /\ displays = update_calculations("Imperial", Defaults("Imperial"), Blank)
    /\ edits = 0

\* <KeyRelease> in an entry field: its text has changed
KeyRelease ==
    /\ edits < MaxEdits
    /\ \E key \in Keys : \E text \in Texts(key, app_unit_system) :
          /\ text # input_vars[key]
          /\ input_vars' = [input_vars EXCEPT ![key] = text]
    /\ displays' = update_calculations(app_unit_system, input_vars', displays)
    /\ edits' = edits + 1
    /\ UNCHANGED app_unit_system
    /\ UNCHANGED <<beamvars, dbvars>>

\* <FocusOut> of an entry field
FocusOut ==
    /\ displays' = update_calculations(app_unit_system, input_vars, displays)
    /\ UNCHANGED <<app_unit_system, input_vars, edits>>
    /\ UNCHANGED <<beamvars, dbvars>>

\* _on_unit_change: the other segment of the toggle is chosen, the defaults
\* are restored and the displays updated
OnUnitChange ==
    /\ edits < MaxEdits
    /\ \E value \in {"Imperial", "SI"} \ {app_unit_system} :
          /\ app_unit_system' = value
          /\ input_vars' = Defaults(value)
    /\ displays' = update_calculations(app_unit_system', input_vars', displays)
    /\ edits' = edits + 1
    /\ UNCHANGED <<beamvars, dbvars>>

AppNext == KeyRelease \/ FocusOut \/ OnUnitChange

AppSpec == AppInit /\ [][AppNext]_vars

(***************************************************************************)
(* Claims                                                                  *)
(***************************************************************************)
\* the constructor arguments the documentation rules out: d > h, or one of
\* b, h, d, fc, fy, Es, n_bars, bar_area not positive
InvalidArgs(a) ==
    \/ RGt(a.d, a.h)
    \/ \E v \in {a.b, a.h, a.d, a.fc, a.fy, a.bar_area} : RLe(v, Zero)
    \/ a.n_bars <= 0
    \/ (a.Es # None /\ RLe(a.Es, Zero))

\* C1: constructing a section with d > h or a non-positive b, h, d, fc, fy,
\* Es, n_bars or bar_area fails with InvalidSectionError: there is no section
\* object and calculate_mn gives no result.
C1_InvalidRejected ==
    InvalidArgs(args) =>
        /\ beam = Raised("InvalidSectionError")
        /\ result.kind # "ok"

\* C2: whenever calculate_mn is called on a section whose neutral-axis depth
\* c = a / beta1 is zero or negative, it raises InvalidSectionError: it
\* neither returns a record nor raises another error.
C2_DegenerateRaises ==
    (/\ result # NoResult
     /\ StressBlockDivisor(beam) # Zero
     /\ beam.beta1 # Zero
     /\ RLe(RDiv(StressBlockDepth(beam), beam.beta1), Zero))
    => result = Raised("InvalidSectionError")

\* C3: in every state of a section the steel area equals n_bars * bar_area,
\* and so does the As that calculate_mn uses and reports.
C3_AsIsProduct ==
    /\ beam.As = RMul(ToR(beam.n_bars), beam.bar_area)
    /\ result.kind = "ok" =>
          /\ result.As = RMul(ToR(beam.n_bars), beam.bar_area)
          /\ result.T = RMul(RMul(ToR(beam.n_bars), beam.bar_area), beam.fy)

\* fc values around and at the breakpoints of the beta1 table
FcGrid(u) ==
    IF u = "imperial"
    THEN {ToR(-4000), Zero, ToR(3999), ToR(4000), ToR(4001), ToR(5000),
          ToR(6000), ToR(7999), ToR(8000), ToR(8001), ToR(12000)}
    ELSE {ToR(-20), Zero, R(279, 10), ToR(28), R(281, 10), ToR(35), ToR(42),
          R(549, 10), ToR(55), R(551, 10), ToR(80)}

\* the table of the derived beta1, as the claim writes it
Beta1Claimed(u, fc) ==
    LET lo == IF u = "imperial" THEN ToR(4000) ELSE ToR(28)
        hi == IF u = "imperial" THEN ToR(8000) ELSE ToR(55)
        width == IF u = "imperial" THEN ToR(1000) ELSE ToR(7)
    IN  IF RLe(fc, lo) THEN R(85, 100)
        ELSE IF RGe(fc, hi) THEN R(65, 100)
        ELSE RSub(R(85, 100), RDiv(RMul(R(5, 100), RSub(fc, lo)), width))

\* the derived beta1 follows the table, is non-increasing in fc and lies in
\* [0.65, 0.85]
Beta1Follows ==
    LET u == beam.unit_system
        derived(f) == calculate_beta1([unit_system |-> u, fc |-> f])
    IN  /\ beam.beta1 = Beta1Claimed(u, beam.fc)
        /\ RLe(R(65, 100), beam.beta1) /\ RLe(beam.beta1, R(85, 100))
        /\ \A f \in FcGrid(u) :
              /\ derived(f) = Beta1Claimed(u, f)
              /\ RLe(f, beam.fc) => RGe(derived(f), beam.beta1)
              /\ RGe(f, beam.fc) => RLe(derived(f), beam.beta1)
              /\ RLe(R(65, 100), derived(f)) /\ RLe(derived(f), R(85, 100))

\* C4 as claimed: with no beta1 supplied the section's beta1 follows the
\* table, is non-increasing in fc, lies in [0.65, 0.85], and at each
\* breakpoint (4000 and 8000 psi, 28 and 55 MPa) the interpolation evaluates
\* to exactly the table's value there (0.85, 0.65).
C4_Beta1Continuous ==
    LET u == beam.unit_system
        lo == IF u = "imperial" THEN ToR(4000) ELSE ToR(28)
        hi == IF u = "imperial" THEN ToR(8000) ELSE ToR(55)
    IN  args.beta1 = None =>
          /\ Beta1Follows
          /\ beam.fc \in {lo, hi} => Beta1Interp(u, beam.fc) = beam.beta1

\* C4 amended: with no beta1 supplied the section's beta1 follows the table,
\* is non-increasing in fc and lies in [0.65, 0.85]; the interpolation
\* evaluates to exactly the table's value at 4000 psi, 8000 psi and 28 MPa,
\* but at 55 MPa it evaluates to 0.85 - 0.05*27/7 = 23/35 (about 0.657) while
\* the table gives 0.65: the SI table steps down there.
C4_Beta1Table ==
    LET u == beam.unit_system
        lo == IF u = "imperial" THEN ToR(4000) ELSE ToR(28)
        hi == IF u = "imperial" THEN ToR(8000) ELSE ToR(55)
    IN  args.beta1 = None =>
          /\ Beta1Follows
          /\ beam.fc = lo => Beta1Interp(u, beam.fc) = beam.beta1
          /\ (beam.fc = hi /\ u = "imperial") => Beta1Interp(u, beam.fc) = beam.beta1
          /\ (beam.fc = hi /\ u # "imperial") =>
                /\ Beta1Interp(u, beam.fc) = R(23, 35)
                /\ beam.beta1 = R(65, 100)

\* an SI section at the 55 MPa breakpoint with its beta1 derived
C4_Witness ==
    /\ args.beta1 = None
    /\ beam.unit_system = "si"
    /\ beam.fc = ToR(55)
    /\ beam.beta1 = R(65, 100)

\* C5: a supplied beta1 is the section's beta1 and the beta1 of c = a / beta1,
\* verbatim, whatever fc and the unit system are; the table is consulted only
\* when no beta1 is supplied.
C5_Beta1Override ==
    /\ args.beta1 # None =>
          /\ beam.beta1 = args.beta1
          /\ result.kind = "ok" => result.c = RDiv(result.a, args.beta1)
    /\ args.beta1 = None =>
          beam.beta1 = Beta1Claimed(beam.unit_system, beam.fc)

\* a supplied beta1 of 1, above every value of the table, used in a result
C5_Witness ==
    /\ args.beta1 = ToR(1)
    /\ beam.beta1 # Beta1Claimed(beam.unit_system, beam.fc)
    /\ result.kind = "ok"
    /\ result.c = result.a

\* net tensile strains around and at the limits of the phi factor
EpsGrid ==
    {R(-3, 1000), Zero, R(1, 1000), R(2, 1000), R(25, 10000), R(3, 1000),
     R(4, 1000), R(45, 10000), R(5, 1000), R(6, 1000), R(1, 100)}

\* the phi factor as the claim writes it
PhiClaimed(epsilon_t) ==
    IF RGe(epsilon_t, R(5, 1000)) THEN R(9, 10)
    ELSE IF RLe(epsilon_t, R(2, 1000)) THEN R(65, 100)
    ELSE RAdd(R(65, 100),
              RDiv(RMul(R(25, 100), RSub(epsilon_t, R(2, 1000))), R(3, 1000)))

\* C6: the phi of a result is determined by its epsilon_t (= epsilon_s): 0.9
\* from 0.005 up, 0.65 up to 0.002, the linear transition in between; it lies
\* in [0.65, 0.9], does not decrease with epsilon_t, and the transition
\* expression meets 0.65 at 0.002 and 0.9 at 0.005.
C6_PhiOfStrain ==
    result.kind = "ok" =>
      /\ result.epsilon_t = result.epsilon_s
      /\ result.phi = PhiClaimed(result.epsilon_t)
      /\ RLe(R(65, 100), result.phi) /\ RLe(result.phi, R(9, 10))
      /\ \A e \in EpsGrid :
            /\ RLe(e, result.epsilon_t) => RLe(Phi(e), result.phi)
            /\ RGe(e, result.epsilon_t) => RGe(Phi(e), result.phi)
      /\ result.epsilon_t \in {R(2, 1000), R(5, 1000)} =>
            PhiTransition(result.epsilon_t) = result.phi

\* a result in the transition zone
C6_Witness ==
    /\ result.kind = "ok"
    /\ RLt(R(2, 1000), result.epsilon_t) /\ RLt(result.epsilon_t, R(5, 1000))
    /\ RLt(R(65, 100), result.phi) /\ RLt(result.phi, R(9, 10))

\* C7: every result has T = As * fy, a = T / (0.85 * fc * b) and
\* c = a / beta1, also when the steel is found not to yield: T and a stay
\* those of the yield stress fy, not of fs.
C7_YieldAssumption ==
    result.kind = "ok" =>
      /\ result.T = RMul(beam.As, beam.fy)
      /\ result.a = RDiv(result.T, RMul(RMul(R(85, 100), beam.fc), beam.b))
      /\ result.c = RDiv(result.a, beam.beta1)

\* a result whose steel does not yield: T is As * fy, above As * fs
C7_Witness ==
    /\ result.kind = "ok"
    /\ ~result.yield_check
    /\ RLt(result.fs, beam.fy)
    /\ result.T = RMul(beam.As, beam.fy)
    /\ RGt(result.T, RMul(beam.As, result.fs))

\* C8: every result has epsilon_y = fy / Es and
\* epsilon_s = epsilon_cu * (d - c) / c, yield_check true exactly when
\* epsilon_s >= epsilon_y, fs = fy when it is and epsilon_s * Es when not;
\* fs never exceeds fy, and fs is negative when c > d.
C8_SteelStress ==
    result.kind = "ok" =>
      /\ result.epsilon_y = RDiv(beam.fy, beam.Es)
      /\ result.epsilon_s =
            RDiv(RMul(beam.epsilon_cu, RSub(beam.d, result.c)), result.c)
      /\ result.yield_check = RGe(result.epsilon_s, result.epsilon_y)
      /\ result.fs = IF result.yield_check THEN beam.fy
                     ELSE RMul(result.epsilon_s, beam.Es)
      /\ RLe(result.fs, beam.fy)
      /\ RGt(result.c, beam.d) => RLt(result.fs, Zero)

\* C9: every result has Mn = As * fs * (d - a / 2) with the fs the yield
\* check selected, and Mu = phi * Mn with its own phi; Mu and Mn have the
\* same sign and Mu is not larger than Mn in magnitude.
C9_Moments ==
    result.kind = "ok" =>
      /\ result.fs = IF result.yield_check THEN beam.fy
                     ELSE RMul(result.epsilon_s, beam.Es)
      /\ result.Mn = RMul(RMul(beam.As, result.fs),
                          RSub(beam.d, RDiv(result.a, ToR(2))))
      /\ result.Mu = RMul(result.phi, result.Mn)
      /\ RGt(result.Mn, Zero) <=> RGt(result.Mu, Zero)
      /\ RLt(result.Mn, Zero) <=> RLt(result.Mu, Zero)
      /\ RLe(<<Abs(result.Mu[1]), result.Mu[2]>>,
             <<Abs(result.Mn[1]), result.Mn[2]>>)

\* a result whose steel does not yield, with a positive moment
C9_Witness ==
    /\ result.kind = "ok"
    /\ ~result.yield_check
    /\ result.fs # beam.fy
    /\ RGt(result.Mn, Zero)
    /\ RLt(result.Mu, result.Mn)

\* b, h, d, fc, fy, Es, n_bars, bar_area and As of the section are positive
PositiveSection ==
    /\ \A v \in {beam.b, beam.h, beam.d, beam.fc, beam.fy, beam.Es,
                  beam.bar_area, beam.As} : RGt(v, Zero)
    /\ beam.n_bars > 0

\* C10: the As_min of a result is max(3*sqrt(fc)/fy, 200/fy) * b * d in
\* imperial units and max(0.25*sqrt(fc)/fy, 1.4/fy) * b * d in SI units; it
\* is positive for positive inputs, and as_check is true exactly when
\* As >= As_min.
C10_MinimumSteel ==
    result.kind = "ok" =>
      LET imperial == beam.unit_system = "imperial"
          coef1 == IF imperial
                   THEN RDiv(RMul(ToR(3), Sqrt(beam.fc)), beam.fy)
                   ELSE RDiv(RMul(R(25, 100), Sqrt(beam.fc)), beam.fy)
          coef2 == IF imperial THEN RDiv(ToR(200), beam.fy)
                   ELSE RDiv(R(14, 10), beam.fy)
      IN  /\ result.As_min = RMul(RMul(RMax(coef1, coef2), beam.b), beam.d)
          /\ PositiveSection => RGt(result.As_min, Zero)
          /\ result.as_check = RGe(beam.As, result.As_min)

\* the arguments with twice the bars of half the area
Doubled(a) ==
    [a EXCEPT !.n_bars = 2 * a.n_bars, !.bar_area = RDiv(a.bar_area, ToR(2))]

\* C11: a section constructed with (2 * n_bars, bar_area / 2) and everything
\* else the same gives the result of the section with (n_bars, bar_area):
\* the same a and Mn, and the same c, epsilon_s, phi and Mu.
C11_SameSteelArea ==
    (result # NoResult /\ assigned = 0) =>
      LET other == calculate_mn(RectangularBeam(Doubled(args)))
      IN  /\ other.kind = result.kind
          /\ result.kind = "ok" =>
                /\ other.a = result.a /\ other.Mn = result.Mn
                /\ other.c = result.c /\ other.epsilon_s = result.epsilon_s
                /\ other.phi = result.phi /\ other.Mu = result.Mu

\* a result of a section with three bars, whose sibling has six
C11_Witness ==
    /\ assigned = 0
    /\ args.n_bars = 3
    /\ result.kind = "ok"
    /\ RectangularBeam(Doubled(args)).n_bars = 6
    /\ RectangularBeam(Doubled(args)).bar_area # beam.bar_area
    /\ calculate_mn(RectangularBeam(Doubled(args))).Mn = result.Mn
    /\ RGt(result.Mn, Zero)

SILabels == {"mm", "mm^2", "N", "kN", "MPa", "N-mm", "kN-m"}
ImperialLabels == {"in", "in^2", "lb", "kips", "psi", "lb-in", "k-in", "k-ft"}

\* C13: an SI section has display moments Mn / 1e6 and Mu / 1e6 (not
\* / 12000) and only SI labels; an imperial section has Mn / 12000 and
\* Mu / 12000 and only imperial labels; T, Mn and Mu of the result are the
\* unscaled values.
C13_UnitsNotMixed ==
    \A i \in DOMAIN calls :
      LET v == calls[i].value
          imperial == beam.unit_system = "imperial"
          si == beam.unit_system = "si"
      IN  /\ (calls[i].method = "get_units" /\ imperial) =>
                \A k \in DOMAIN v : v[k] \in ImperialLabels
          /\ (calls[i].method = "get_units" /\ si) =>
                \A k \in DOMAIN v : v[k] \in SILabels
          /\ (calls[i].method = "calculate_mn" /\ v.kind = "ok") =>
                /\ imperial => /\ v.Mn_display = RDiv(v.Mn, ToR(12000))
                               /\ v.Mu_display = RDiv(v.Mu, ToR(12000))
                /\ si => /\ v.Mn_display = RDiv(v.Mn, ToR(1000000))
                         /\ v.Mu_display = RDiv(v.Mu, ToR(1000000))
                         /\ v.Mn # Zero => v.Mn_display # RDiv(v.Mn, ToR(12000))
                         /\ v.Mu # Zero => v.Mu_display # RDiv(v.Mu, ToR(12000))
                /\ v.T = RMul(beam.As, beam.fy)
                /\ v.Mn = RMul(RMul(beam.As, v.fs),
                               RSub(beam.d, RDiv(v.a, ToR(2))))
                /\ v.Mu = RMul(v.phi, v.Mn)

\* an SI section asked for its labels and for its moments
C13_Witness ==
    /\ beam.unit_system = "si"
    /\ Len(calls) = 2
    /\ calls[1].method = "get_units"
    /\ calls[1].value.moment_k = "N-mm"
    /\ calls[2].method = "calculate_mn"
    /\ calls[2].value.kind = "ok"
    /\ RGt(calls[2].value.Mn, Zero)

\* the fields of the returned dict that hold numbers, and those that hold flags
NumericKeys ==
    {"T", "T_display", "a", "c", "epsilon_y", "epsilon_s", "fs", "Mn", "Mn_k",
     "Mn_display", "As", "As_min", "epsilon_t", "phi", "Mu", "Mu_display",
     "Mn_kft", "Mn_kin", "Mu_kft"}
FlagKeys == {"yield_check", "as_check"}

\* C14: every value of a returned dict is a number or a boolean flag, never
\* None, in SI as in imperial units.
C14_NumericRecord ==
    result.kind = "ok" =>
      /\ DOMAIN result = NumericKeys \cup FlagKeys \cup {"kind"}
      /\ \A k \in FlagKeys : result[k] \in BOOLEAN
      /\ \A k \in NumericKeys : result[k] # None

\* the unit strings of the inputs that lower-case to "imperial"
ImperialStrings == {"imperial", "Imperial", "IMPERIAL"}

\* C17: a section whose unit string lower-cases to "imperial" takes the
\* imperial choice in all five places (default Es 29000000, beta1 breakpoints
\* 4000/8000, As_min coefficients 3 and 200, divisors 12000/1000, imperial
\* labels); a section with any other string, recognized or not, is
\* constructed all the same and takes the SI choice in all five (200000,
\* 28/55, 0.25 and 1.4, 1e6/1000, SI labels).
C17_UnitsUniform ==
    LET imperial == args.unit_system \in ImperialStrings
        u == IF imperial THEN "imperial" ELSE "si"
        bd(t) == RMul(RMul(t, beam.b), beam.d)
    IN  /\ beam.fc = args.fc /\ beam.b = args.b
        /\ args.Es = None =>
              beam.Es = IF imperial THEN ToR(29000000) ELSE ToR(200000)
        /\ args.beta1 = None => beam.beta1 = Beta1Claimed(u, beam.fc)
        /\ \A i \in DOMAIN calls :
              LET v == calls[i].value IN
              /\ (calls[i].method = "calculate_as_min" /\ v.kind = "ok") =>
                    v.value =
                      IF imperial
                      THEN RMax(bd(RDiv(RMul(ToR(3), Sqrt(beam.fc)), beam.fy)),
                                bd(RDiv(ToR(200), beam.fy)))
                      ELSE RMax(bd(RDiv(RMul(R(25, 100), Sqrt(beam.fc)), beam.fy)),
                                bd(RDiv(R(14, 10), beam.fy)))
              /\ (calls[i].method = "calculate_mn" /\ v.kind = "ok") =>
                    /\ v.T_display = RDiv(v.T, ToR(1000))
                    /\ v.Mn_display =
                          RDiv(v.Mn, IF imperial THEN ToR(12000) ELSE ToR(1000000))
                    /\ v.Mu_display =
                          RDiv(v.Mu, IF imperial THEN ToR(12000) ELSE ToR(1000000))
                    /\ v.Mn_k = IF imperial THEN RDiv(v.Mn, ToR(1000)) ELSE v.Mn
              /\ calls[i].method = "get_units" =>
                    \A k \in DOMAIN v :
                      v[k] \in IF imperial THEN ImperialLabels ELSE SILabels

\* a section constructed with the unrecognized unit string "metric", asked
\* for its labels and for its minimum steel
C17_Witness ==
    /\ args.unit_system = "metric"
    /\ args.Es = None /\ beam.Es = ToR(200000)
    /\ Len(calls) = 2
    /\ calls[1].method = "get_units" /\ calls[1].value.stress = "MPa"
    /\ calls[2].method = "calculate_as_min" /\ calls[2].value.kind = "ok"

\* C18: for an imperial section the legacy fields are Mn_kft = Mn / 12000,
\* Mu_kft = Mu / 12000 and Mn_kin = Mn / 1000: Mn_kin equals Mn_k, the value
\* labelled "k-in", and is 12 times Mn_kft.
C18_LegacyFields ==
    (result.kind = "ok" /\ beam.unit_system = "imperial") =>
      /\ result.Mn_kft = RDiv(result.Mn, ToR(12000))
      /\ result.Mu_kft = RDiv(result.Mu, ToR(12000))
      /\ result.Mn_kin = RDiv(result.Mn, ToR(1000))
      /\ result.Mn_kin = result.Mn_k
      /\ result.Mn_kin = RMul(ToR(12), result.Mn_kft)

\* every record saved is stored, in the order saved, under increasing ids,
\* and what get_history last returned is the newest min(limit, count) of the
\* records stored when it was called, newest first, as they were saved
C16_Stored ==
    /\ Len(db.rows) = Len(saved)
    /\ \A i \in DOMAIN saved :
          /\ json_loads(db.rows[i].inputs) = saved[i].inputs
          /\ json_loads(db.rows[i].results) = saved[i].results
          /\ \A j \in DOMAIN saved : i < j => db.rows[i].id < db.rows[j].id
    /\ history.kind = "ok" =>
          LET n == IF history.limit < history.count THEN history.limit
                   ELSE history.count
          IN  /\ Len(history.value) = n
              /\ \A k \in 1..n :
                    /\ history.value[k].id = db.rows[history.count - k + 1].id
                    /\ history.value[k].inputs = saved[history.count - k + 1].inputs
                    /\ history.value[k].results = saved[history.count - k + 1].results

\* a step keeps every stored row as it is, and a step that reads the history
\* leaves the database as it is
C16_Kept ==
    /\ Len(db'.rows) >= Len(db.rows)
    /\ SubSeq(db'.rows, 1, Len(db.rows)) = db.rows
    /\ history' # history => db' = db

\* C16: the store is append-only: every record saved stays stored with its
\* inputs, its results and its own increasing id, no step changes or removes
\* a row, get_history changes nothing, and get_history(limit), limit >= 0,
\* returns the min(limit, number saved) newest records, newest first, with
\* the inputs and results that were saved.
C16_AppendOnly == []C16_Stored /\ [][C16_Kept]_vars

\* three records saved, the newest two read back: an SI record with its None
\* fields above an imperial one
C16_Witness ==
    /\ Len(saved) = 3
    /\ history.kind = "ok" /\ history.limit = 2 /\ history.count = 3
    /\ history.value[1].id = 3 /\ history.value[2].id = 2
    /\ history.value[1].inputs.unit_system = PyStr("si")
    /\ history.value[1].results.Mn_kft = PyNone
    /\ history.value[2].inputs.unit_system = PyStr("imperial")
    /\ saved[1].inputs.unit_system = PyStr("si")
\* C15 (src/app.py, _update_calculations): after any sequence of field
\* edits and unit toggles the five displays show one calculation: the
\* diagrams and both text panels agree on the inputs they show and on the
\* results, and those results are what calculate_mn gives for those inputs.
C15_OneCalculation ==
    LET e == displays.equations_text
        h == displays.section.shows.h
    IN  /\ \A k \in DOMAIN displays : displays[k].kind = "ok"
        /\ displays.results_text.results = e.results
        /\ displays.results_text.units = e.units
        /\ displays.section.shows =
              [b |-> e.b, h |-> h, d |-> e.d, a |-> e.results.a,
               c |-> e.results.c, n_bars |-> e.n_bars, bar_area |-> e.bar_area]
        /\ displays.strain.shows =
              [h |-> h, d |-> e.d, c |-> e.results.c,
               epsilon_cu |-> e.epsilon_cu, epsilon_s |-> e.results.epsilon_s]
        /\ displays.stress.shows =
              [h |-> h, d |-> e.d, a |-> e.results.a, c |-> e.results.c,
               T_display |-> e.results.T_display, force_k |-> e.units.force_k]
        /\ e.units \in {get_units([unit_system |-> u]) : u \in Units}
        /\ e.results = calculate_mn(BeamOf(
              IF e.units.length = "in" THEN "Imperial" ELSE "SI",
              [fc |-> e.fc, fy |-> e.fy, Es |-> e.Es, beta1 |-> e.beta1,
               epsilon_cu |-> e.epsilon_cu, b |-> e.b, h |-> h, d |-> e.d,
               n_bars |-> e.n_bars, bar_area |-> e.bar_area]))

\* C15, one update: when a value read from the fields is <= 0, or solving
\* or drawing raises, no display changes; otherwise the displays show the
\* values now in the fields, under the units of the toggle.
C15_Update ==
    LET v == input_values(input_vars')
        e == displays'.equations_text
    IN  IF \/ \E k \in {"fc", "fy", "Es", "b", "h", "d", "bar_area"} :
                v[k] # NaN /\ RLe(v[k], Zero)
           \/ v.n_bars <= 0
           \/ calculate_mn(BeamOf(app_unit_system', v)).kind # "ok"
           \/ v.h = NaN
        THEN displays' = displays
        ELSE /\ \A k \in DOMAIN v \ {"h"} : e[k] = v[k]
             /\ displays'.section.shows.h = v.h
             /\ e.units = get_units([unit_system |-> Lower(app_unit_system')])

C15_Displays == []C15_OneCalculation /\ [][C15_Update]_vars

\* the toggle was set to SI and the displays rewritten, then d was edited
\* to 0: the displays keep the SI calculation with d = 500
C15_Witness ==
    /\ app_unit_system = "SI"
    /\ input_vars.d = Num(Zero)
    /\ displays.section.shows.d = ToR(500)
    /\ displays.strain.shows.d = ToR(500)
    /\ displays.equations_text.units.length = "mm"

====
